---- MODULE Spec2Model ----
(***************************************************************************)
(* Model of mock-infrastructure/mock-api-server.py: the sliding-window     *)
(* rate limiter, the fixture store with its response customizer, the       *)
(* request router and the per-request pipeline of MockAPIHandler, served   *)
(* by the single-threaded http.server.HTTPServer loop.                     *)
(*                                                                         *)
(* Time is counted in ticks, TicksPerSecond ticks to a second, so that the *)
(* float clock of time.time() can stand between two whole seconds.         *)
(***************************************************************************)
EXTENDS Integers, Sequences, FiniteSets, TLC

VARIABLES
    now,            \* the wall clock read by time.time(), in ticks
    requests,       \* RateLimiter.requests: client_ip -> list of timestamps
    responses,      \* MockResponseGenerator.responses: provider -> scenario -> document
    failure_rate,   \* MockAPIConfig.failure_rate, in thousandths
    pending,        \* connections waiting in the listening socket's queue
    pc,             \* where the one handler of the serving loop stands
    client_ip,      \* handle_request's client_ip
    adm,            \* what the handler's is_rate_limited call saw and decided
    resp,           \* what the handler did with the request it last finished
    recent,         \* history: per client, the admitted timestamps less than a window old
    rejected,       \* history: per client, whether it was turned away since its last admitted request
    call,           \* the last direct get_response call and its result
    main,           \* main(): its environment, its command line and the config it builds
    lock,           \* RateLimiter.lock: the thread that holds it
    thread          \* the threads that call the RateLimiter directly

vars == <<now, requests, responses, failure_rate, pending, pc, client_ip,
          adm, resp, recent, rejected, call, main, lock, thread>>

----------------------------------------------------------------------------
(* Bounds and configuration values of the model.                           *)

\* ticks of the clock per second
TicksPerSecond == 2
\* the last tick of the clock the model follows
MaxTime == 3
\* config.rate_limit_requests (--rate-limit), scaled down from 100
rate_limit_requests == 2
\* config.rate_limit_window in seconds, scaled down from 3600
rate_limit_window == 1
\* config.response_delay_min and config.response_delay_max, in ticks
response_delay_min == 0
response_delay_max == 1
\* connections the listening socket may hold back
MaxPending == 1
\* the last tick of the clock under SpecRouting
RoutingMaxTime == 1
\* the last tick of the clock under SpecGenerator
GeneratorMaxTime == 1
\* the last tick of the clock under SpecLimiter
LimiterMaxTime == 2

WindowTicks == rate_limit_window * TicksPerSecond

Clients == {"10.0.0.1", "10.0.0.2"}
RoutingClients == {"10.0.0.1"}

Max(a, b) == IF a >= b THEN a ELSE b

----------------------------------------------------------------------------
(* JSON documents: a tagged tree of objects, arrays, strings, numbers and  *)
(* null.                                                                   *)

Str(s) == [t |-> "str", s |-> s]
Num(n) == [t |-> "num", n |-> n]
Null == [t |-> "null"]
Obj(f) == [t |-> "obj", o |-> f]
Arr(a) == [t |-> "arr", a |-> a]

IsDict(n) == n.t = "obj"
IsList(n) == n.t = "arr"
IsContainer(n) == IsDict(n) \/ IsList(n)

\* Python's truth value of a JSON value ("... and value")
Truthy(n) ==
    CASE n.t = "str" -> n.s # ""
      [] n.t = "num" -> n.n # 0
      [] n.t = "null" -> FALSE
      [] n.t = "obj" -> DOMAIN n.o # {}
      [] n.t = "arr" -> Len(n.a) > 0

\* type(x).__name__ as it appears in an AttributeError's message
TypeName(n) ==
    CASE n.t = "str" -> "str"
      [] n.t = "num" -> "int"
      [] n.t = "null" -> "NoneType"
      [] n.t = "obj" -> "dict"
      [] n.t = "arr" -> "list"

----------------------------------------------------------------------------
(* MockResponseGenerator: the customizer's three in-place passes.          *)

TimestampKeys == {"timestamp", "created", "started", "finished"}

\* datetime.utcnow().isoformat() + '+00:00' at clock value t
IsoFormat(t) == "T" \o ToString(t) \o "+00:00"

\* the values random.randint(100000, 999999) is drawn from
RequestIdNums == {100000, 999999}

\* f"req_{n}"
RequestId(n) == "req_" \o ToString(n)

\* update_timestamps(obj, timestamp): the object as the pass leaves it
RECURSIVE update_timestamps(_, _)
update_timestamps(obj, timestamp) ==
    IF IsDict(obj)
    THEN Obj([key \in DOMAIN obj.o |->
                IF key \in TimestampKeys /\ Truthy(obj.o[key])
                THEN Str(timestamp)
                ELSE IF IsContainer(obj.o[key])
                     THEN update_timestamps(obj.o[key], timestamp)
                     ELSE obj.o[key]])
    ELSE IF IsList(obj)
    THEN Arr([i \in 1..Len(obj.a) |-> update_timestamps(obj.a[i], timestamp)])
    ELSE obj

\* update_request_id(obj), with rid the identifier the call draws
RECURSIVE update_request_id(_, _)
update_request_id(obj, rid) ==
    IF IsDict(obj)
    THEN Obj([key \in DOMAIN obj.o |->
                IF key = "request_id"
                THEN Str(rid)
                ELSE IF IsContainer(obj.o[key])
                     THEN update_request_id(obj.o[key], rid)
                     ELSE obj.o[key]])
    ELSE IF IsList(obj)
    THEN Arr([i \in 1..Len(obj.a) |-> update_request_id(obj.a[i], rid)])
    ELSE obj

\* deep_update(obj, key, value)
RECURSIVE deep_update(_, _, _)
deep_update(obj, key, value) ==
    IF IsDict(obj)
    THEN LET set == IF key \in DOMAIN obj.o
                    THEN [obj.o EXCEPT ![key] = value]
                    ELSE obj.o
         IN Obj([k \in DOMAIN set |->
                   IF IsContainer(set[k])
                   THEN deep_update(set[k], key, value)
                   ELSE set[k]])
    ELSE IF IsList(obj)
    THEN Arr([i \in 1..Len(obj.a) |-> deep_update(obj.a[i], key, value)])
    ELSE obj

(* A document and its dict.copy()/list.copy(): the copy is a new top-level *)
(* container whose members are the very objects the stored one holds.      *)
(* copy is the copy, orig the stored document, shared the top-level keys   *)
(* at which the two still hold the same object.  A pass that assigns       *)
(* copy[key] unshares that key; a pass that descends into a shared member  *)
(* changes it for both.  The items of a list are never assigned, so a list *)
(* and its copy change together.                                           *)

ShallowCopy(doc) ==
    [copy |-> doc, orig |-> doc,
     shared |-> IF IsDict(doc) THEN DOMAIN doc.o ELSE {}]

(* The three passes, as values: [pass |-> "timestamps", value |-> the      *)
(* timestamp], [pass |-> "request_id", value |-> the identifier] and       *)
(* [pass |-> "set", key |-> k, value |-> v] for deep_update(obj, k, v).    *)

\* whether the pass assigns obj[key] in a dict where key holds value
Assigns(pass, key, value) ==
    CASE pass.pass = "timestamps" -> key \in TimestampKeys /\ Truthy(value)
      [] pass.pass = "request_id" -> key = "request_id"
      [] pass.pass = "set" -> key = pass.key

\* what the pass assigns
Assigned(pass) ==
    IF pass.pass = "set" THEN pass.value ELSE Str(pass.value)

\* the pass on a member it descends into
Descend(pass, obj) ==
    CASE pass.pass = "timestamps" -> update_timestamps(obj, pass.value)
      [] pass.pass = "request_id" -> update_request_id(obj, pass.value)
      [] pass.pass = "set" -> deep_update(obj, pass.key, pass.value)

\* one pass over the copy
OnCopy(al, pass) ==
    IF IsDict(al.copy)
    THEN LET c == al.copy.o
             assigned == {k \in DOMAIN c : Assigns(pass, k, c[k])}
         IN [copy |-> Obj([k \in DOMAIN c |->
                             IF k \in assigned THEN Assigned(pass)
                             ELSE IF IsContainer(c[k]) THEN Descend(pass, c[k])
                             ELSE c[k]]),
             orig |-> Obj([k \in DOMAIN al.orig.o |->
                             IF k \in al.shared /\ k \notin assigned
                                /\ IsContainer(c[k])
                             THEN Descend(pass, c[k])
                             ELSE al.orig.o[k]]),
             shared |-> al.shared \ assigned]
    ELSE [copy |-> Descend(pass, al.copy), orig |-> Descend(pass, al.orig),
          shared |-> {}]

\* the loop "for key, value in kwargs.items(): self.deep_update(...)"
RECURSIVE ApplyOverrides(_, _)
ApplyOverrides(al, kwargs) ==
    IF kwargs = <<>>
    THEN al
    ELSE ApplyOverrides(
            OnCopy(al, [pass |-> "set", key |-> Head(kwargs)[1],
                        value |-> Head(kwargs)[2]]),
            Tail(kwargs))

\* the customizer that applies the overrides first and rewrites afterwards
customize_response_overrides_first(al, kwargs, t, rid) ==
    LET set == ApplyOverrides(al, kwargs)
        stamped == OnCopy(set, [pass |-> "timestamps", value |-> IsoFormat(t)])
    IN OnCopy(stamped, [pass |-> "request_id", value |-> RequestId(rid)])

\* customize_response(response, **kwargs) on a copy al, at clock value t,
\* with rid the request identifier drawn
customize_response(al, kwargs, t, rid) ==
    LET stamped == OnCopy(al, [pass |-> "timestamps", value |-> IsoFormat(t)])
        renamed == OnCopy(stamped, [pass |-> "request_id",
                                    value |-> RequestId(rid)])
    IN ApplyOverrides(renamed, kwargs)

\* generate_error_response(status_code, error_code, message)
generate_error_response(status_code, error_code, message, t, rid) ==
    Obj([error |-> Obj([code |-> Str(error_code),
                        message |-> Str(message),
                        status_code |-> Num(status_code)]),
         meta |-> Obj([request_id |-> Str("req_error_" \o ToString(rid)),
                       timestamp |-> Str(IsoFormat(t)),
                       api_version |-> Str("v1")])])

\* get_response(provider, scenario, **kwargs) on the store: the document
\* returned (doc), the exception raised if any (exc, "" for none), and the
\* store as the call leaves it
get_response(store, provider, scenario, kwargs, t, rid) ==
    IF provider \notin DOMAIN store
    THEN [exc |-> "", store |-> store,
          doc |-> generate_error_response(404, "provider_not_found",
                    "Provider '" \o provider \o "' not supported", t, rid)]
    ELSE IF scenario \notin DOMAIN store[provider]
    THEN [exc |-> "", store |-> store,
          doc |-> generate_error_response(404, "scenario_not_found",
                    "Scenario '" \o scenario \o "' not found for provider '"
                        \o provider \o "'", t, rid)]
    ELSE LET stored == store[provider][scenario]
         IN IF ~IsContainer(stored)
            THEN [exc |-> "'" \o TypeName(stored)
                            \o "' object has no attribute 'copy'",
                  store |-> store, doc |-> Null]
            ELSE LET al == customize_response(ShallowCopy(stored), kwargs, t, rid)
                 IN [exc |-> "", doc |-> al.copy,
                     store |-> [store EXCEPT ![provider][scenario] = al.orig]]

----------------------------------------------------------------------------
(* RateLimiter.  Each method holds self.lock from its first line to its    *)
(* return, so each is one atomic step on the requests map.  A client that  *)
(* is not yet a key of the map reads as the empty list in both methods.    *)

\* the clean-up that forgets to drop anything
CleanOldKeepsAll(times, window_start) == times

\* "req_time for req_time in ... if req_time > window_start"
CleanOld(times, window_start) ==
    SelectSeq(times, LAMBDA req_time : req_time > window_start)

\* the limiter that admits without recording
is_rate_limited_unrecorded(reqs, ip, t) ==
    LET window_start == t - WindowTicks
        kept == CleanOld(reqs[ip], window_start)
    IN [limited |-> Len(kept) >= rate_limit_requests,
        requests |-> [reqs EXCEPT ![ip] = kept]]

\* the limiter that records the request it turns away
is_rate_limited_recording_all(reqs, ip, t) ==
    LET window_start == t - WindowTicks
        kept == CleanOld(reqs[ip], window_start)
    IN [limited |-> Len(kept) >= rate_limit_requests,
        requests |-> [reqs EXCEPT ![ip] = Append(kept, t)]]

\* is_rate_limited(client_ip) at clock value t: the answer and the map after
is_rate_limited(reqs, ip, t) ==
    LET window_start == t - WindowTicks
        kept == CleanOld(reqs[ip], window_start)
    IN IF Len(kept) >= rate_limit_requests
       THEN [limited |-> TRUE, requests |-> [reqs EXCEPT ![ip] = kept]]
       ELSE [limited |-> FALSE,
             requests |-> [reqs EXCEPT ![ip] = Append(kept, t)]]

\* the status that counts only the timestamps less than a window old at t
get_rate_limit_info_pruning(reqs, ip, t) ==
    LET current_count == Len(CleanOld(reqs[ip], t - WindowTicks))
    IN [limit |-> rate_limit_requests,
        remaining |-> Max(0, rate_limit_requests - current_count),
        reset |-> (t + WindowTicks) \div TicksPerSecond]

\* get_rate_limit_info(client_ip) at clock value t; reset is
\* int(time.time() + window), whole seconds
get_rate_limit_info(reqs, ip, t) ==
    LET current_count == Len(reqs[ip])
    IN [limit |-> rate_limit_requests,
        remaining |-> Max(0, rate_limit_requests - current_count),
        reset |-> (t + WindowTicks) \div TicksPerSecond]

----------------------------------------------------------------------------
(* The fixture stores and the requests the model draws from.               *)

DocServer ==
    Obj([name |-> Str("web-1"),
         created |-> Str("2020-01-01"),
         meta |-> Obj([request_id |-> Str("req_000000"),
                       timestamp |-> Str("2020-01-01"),
                       zone |-> Str("eu")])])

DocRateLimit ==
    Obj([error |-> Obj([code |-> Str("rate_limit_exceeded")])])

DocList == Arr(<<Obj([created |-> Str("2020-01-01")]), Str("web-1")>>)

DocScalar == Str("pong")

\* a store of object fixtures, one of them a bare string
StoreObjects ==
    [p \in {"hetzner", "aws"} |->
        IF p = "hetzner"
        THEN [s \in {"success-create-server", "rate-limit-exceeded"} |->
                IF s = "success-create-server" THEN DocServer ELSE DocRateLimit]
        ELSE [s \in {"success-create-server"} |-> DocScalar]]

\* a store whose hetzner/rate-limit-exceeded file holds a bare string, and
\* whose aws directory holds one array fixture
StoreScalars ==
    [p \in {"hetzner", "aws"} |->
        IF p = "hetzner"
        THEN [s \in {"rate-limit-exceeded"} |-> DocScalar]
        ELSE [s \in {"success-list-servers"} |-> DocList]]

InitStores == {StoreObjects, StoreScalars}

\* the order in which a provider's scenarios were loaded
ScenarioOrder ==
    <<"success-create-server", "success-list-servers", "rate-limit-exceeded">>

\* config.failure_rate and the draws of random.random(), in thousandths
FailureRates == {0, 100, 1000}
RandomDraws == {0, 500, 999}

Methods == {"GET", "POST", "PUT", "DELETE"}

\* url_parts.path of the request line, as "/" and the names between
Paths ==
    { <<"/">>,
      <<"/", "hetzner">>,
      <<"/", "hetzner", "/">>,
      <<"/", "hetzner", "/", "servers">>,
      <<"/", "hetzner", "/", "server-status", "/">>,
      <<"/", "hetzner", "/", "test-scenarios">>,
      <<"/", "aws", "/", "list-servers">>,
      <<"/", "aws", "/", "instances">>,
      <<"/", "aws", "/", "reboot", "/", "7">>,
      <<"/", "nope", "/", "droplets">>,
      <<"/", "nope", "/", "test-scenarios">> }

\* parse_qs(url_parts.query): key -> the list of its values
Queries ==
    { [k \in {} |-> <<>>],
      [k \in {"scenario"} |-> <<"rate-limit-exceeded">>],
      [k \in {"scenario"} |-> <<"quota-exceeded", "success-create-server">>],
      [k \in {"region"} |-> <<"eu">>] }

\* path.strip('/')
RECURSIVE LStrip(_)
LStrip(p) == IF p # <<>> /\ Head(p) = "/" THEN LStrip(Tail(p)) ELSE p
RECURSIVE RStrip(_)
RStrip(p) ==
    IF p # <<>> /\ p[Len(p)] = "/" THEN RStrip(SubSeq(p, 1, Len(p) - 1)) ELSE p
Strip(p) == RStrip(LStrip(p))

\* str.split('/'): the pieces between the slashes, "" for an empty piece
RECURSIVE SplitFrom(_, _, _)
SplitFrom(p, piece, done) ==
    IF p = <<>> THEN Append(done, piece)
    ELSE IF Head(p) = "/" THEN SplitFrom(Tail(p), "", Append(done, piece))
    ELSE SplitFrom(Tail(p), piece \o Head(p), done)
Split(p) == SplitFrom(p, "", <<>>)

----------------------------------------------------------------------------
(* MockAPIHandler: the router and the responses.                           *)

\* the table without its list-servers and server-status entries
ScenarioMapShort(action) == "success-create-server"

\* scenario_map.get(action, 'success-create-server')
ScenarioMap(action) ==
    CASE action \in {"servers", "instances", "droplets", "create-server"}
            -> "success-create-server"
      [] action = "list-servers" -> "success-list-servers"
      [] action = "server-status" -> "success-server-status"
      [] OTHER -> "success-create-server"

\* the listing that names every scenario file, whatever the provider
handle_test_scenarios_any_provider(store, provider, query_params) ==
    Obj([provider |-> Str(provider),
         available_scenarios |->
            Arr([i \in 1..Len(ScenarioOrder) |-> Str(ScenarioOrder[i])]),
         usage |-> Str("Add ?scenario=<scenario_name> to test specific scenarios"),
         examples |-> Arr(<<>>)])

\* handle_test_scenarios(provider, query_params)
handle_test_scenarios(store, provider, query_params) ==
    LET loaded == IF provider \in DOMAIN store THEN DOMAIN store[provider] ELSE {}
        names == SelectSeq(ScenarioOrder, LAMBDA s : s \in loaded)
    IN Obj([provider |-> Str(provider),
            available_scenarios |-> Arr([i \in 1..Len(names) |-> Str(names[i])]),
            usage |-> Str("Add ?scenario=<scenario_name> to test specific scenarios"),
            examples |-> Arr(<<
                Str("/" \o provider \o "/servers?scenario=rate-limit-exceeded"),
                Str("/" \o provider \o "/servers?scenario=quota-exceeded"),
                Str("/" \o provider \o "/servers?scenario=auth-failed")>>)])

\* route_request(provider, action, method, query_params): what get_response
\* gives (see there), the scenario resolved, and whether the request was the
\* test-scenarios one
route_request(store, provider, action, method, query_params, t, rid) ==
    IF action = "test-scenarios"
    THEN [exc |-> "", store |-> store, scenario |-> "", discovery |-> TRUE,
          doc |-> handle_test_scenarios(store, provider, query_params)]
    ELSE LET mapped == ScenarioMap(action)
             scenario == IF "scenario" \in DOMAIN query_params
                         THEN query_params["scenario"][1]
                         ELSE mapped
             got == get_response(store, provider, scenario, <<>>, t, rid)
         IN [exc |-> got.exc, store |-> got.store, scenario |-> scenario,
             discovery |-> FALSE, doc |-> got.doc]

HeaderNames ==
    {"Content-Type", "Content-Length", "X-RateLimit-Limit",
     "X-RateLimit-Remaining", "X-RateLimit-Reset",
     "Access-Control-Allow-Origin", "Access-Control-Allow-Methods",
     "Access-Control-Allow-Headers"}

\* the response writer that leaves the rate-limit and CORS headers off its
\* error responses
send_json_response_bare_errors(status_code, data, reqs, ip, t) ==
    LET rate_info == get_rate_limit_info(reqs, ip, t)
    IN [status |-> status_code, body |-> data,
        headers |-> [names |-> IF status_code >= 400
                               THEN {"Content-Type", "Content-Length"}
                               ELSE HeaderNames,
                     content_type |-> "application/json",
                     limit |-> rate_info.limit,
                     remaining |-> rate_info.remaining,
                     reset |-> rate_info.reset,
                     allow_origin |-> IF status_code >= 400 THEN "" ELSE "*",
                     allow_methods |-> "GET, POST, PUT, DELETE, OPTIONS",
                     allow_headers |-> "Content-Type, Authorization"]]

\* send_json_response(status_code, data): the status line, the headers and
\* the body written, the rate-limit headers read at clock value t
send_json_response(status_code, data, reqs, ip, t) ==
    LET rate_info == get_rate_limit_info(reqs, ip, t)
    IN [status |-> status_code, body |-> data,
        headers |-> [names |-> HeaderNames,
                     content_type |-> "application/json",
                     limit |-> rate_info.limit,
                     remaining |-> rate_info.remaining,
                     reset |-> rate_info.reset,
                     allow_origin |-> "*",
                     allow_methods |-> "GET, POST, PUT, DELETE, OPTIONS",
                     allow_headers |-> "Content-Type, Authorization"]]

\* the comparison with <= for <
FailureDrawnInclusive(draw, rate) == draw <= rate

\* "random.random() < self.config.failure_rate"
FailureDrawn(draw, rate) == draw < rate

\* the canned failures of send_random_failure_response
Failures ==
    { <<500, "internal_server_error", "Internal server error occurred">>,
      <<503, "service_unavailable", "Service temporarily unavailable">>,
      <<502, "bad_gateway", "Bad gateway error">>,
      <<504, "gateway_timeout", "Gateway timeout">> }

\* the 404 body of a path with fewer than two parts
InvalidEndpoint ==
    Obj([error |-> Str("Invalid API endpoint"),
         message |-> Str("Expected format: /{provider}/{action}")])

\* the body of the except branch, for the exception with message e
InternalError(e) ==
    Obj([error |-> Str("Internal server error"), message |-> Str(e)])

\* what a write to a connection the client has closed raises
BrokenPipe == "[Errno 32] Broken pipe"

(* The client may have gone by the time the handler writes.  conn says     *)
(* whether it is still there, and w[i] whether the handler's i-th          *)
(* send_json_response returns (TRUE) or raises BrokenPipe: with the client *)
(* there every write returns, without it either may happen.                *)
WriteOutcomes == [conn : BOOLEAN, w : [1..2 -> BOOLEAN]]
Writes == {x \in WriteOutcomes : x.conn => (x.w[1] /\ x.w[2])}

\* the request line: its method, path and parsed query
RequestLines == [method : Methods, path : Paths, query : Queries]

NoHeaders ==
    [names |-> {}, content_type |-> "", limit |-> 0, remaining |-> 0,
     reset |-> 0, allow_origin |-> "", allow_methods |-> "",
     allow_headers |-> ""]

\* resp before the handler has answered
NoResp ==
    [step |-> "none", conn |-> TRUE, sent |-> FALSE, status |-> 0,
     body |-> Null, headers |-> NoHeaders, raised |-> "", caught |-> FALSE,
     escaped |-> FALSE, method |-> "", path |-> <<>>,
     query |-> [k \in {} |-> <<>>], provider |-> "", scenario |-> "",
     discovery |-> FALSE, routed |-> FALSE, at |-> 0]

NoAdm ==
    [at |-> 0, before |-> <<>>, limited |-> FALSE, earlier |-> 0,
     turned_away |-> FALSE]

\* the record of a request: the line it carried, the step that ended it
Ended(step, line, io, t) ==
    [NoResp EXCEPT !.step = step, !.conn = io.conn, !.method = line.method,
                   !.path = line.path, !.query = line.query, !.at = t]

\* a send_json_response that returned
Wrote(r, out) ==
    [r EXCEPT !.sent = TRUE, !.status = out.status, !.body = out.body,
              !.headers = out.headers]

\* the request lines of the specification that follows the rate limiter
\* over time: one of each outcome of the router
ProbeLines ==
    { [method |-> "GET", path |-> <<"/", "hetzner", "/", "servers">>,
       query |-> [k \in {"scenario"} |-> <<"rate-limit-exceeded">>]],
      [method |-> "POST", path |-> <<"/", "nope", "/", "droplets">>,
       query |-> [k \in {} |-> <<>>]],
      [method |-> "DELETE", path |-> <<"/", "hetzner">>,
       query |-> [k \in {} |-> <<>>]] }

\* no request line: the branch that answered never read self.path
NoLine == [method |-> "", path |-> <<>>, query |-> [k \in {} |-> <<>>]]

----------------------------------------------------------------------------
(* main(): MockAPIConfig().from_env(), then the assignments from the       *)
(* parsed command line, then MockAPIServer(config).  The texts of the      *)
(* environment and of the command line are sequences of characters; int()  *)
(* and float() read them.  Delays and the failure rate are kept in         *)
(* thousandths.                                                            *)

\* the value of a decimal digit
DigitValue(c) ==
    CASE c = "0" -> 0 [] c = "1" -> 1 [] c = "2" -> 2 [] c = "3" -> 3
      [] c = "4" -> 4 [] c = "5" -> 5 [] c = "6" -> 6 [] c = "7" -> 7
      [] c = "8" -> 8 [] c = "9" -> 9

\* int(text) for a text of digits
RECURSIVE ParseInt(_)
ParseInt(text) ==
    IF text = <<>> THEN 0
    ELSE ParseInt(SubSeq(text, 1, Len(text) - 1)) * 10
            + DigitValue(text[Len(text)])

\* float(text) for a text of digits with at most one point and at most
\* three digits behind it, in thousandths
ParseFloat(text) ==
    LET points == {i \in 1..Len(text) : text[i] = "."}
        point == IF points = {} THEN Len(text) + 1 ELSE CHOOSE i \in points : TRUE
        whole == SubSeq(text, 1, point - 1)
        behind == SubSeq(text, point + 1, Len(text))
        padded == behind \o SubSeq(<<"0", "0", "0">>, 1, 3 - Len(behind))
    IN ParseInt(whole) * 1000 + ParseInt(padded)

\* MockAPIConfig.__init__
MockAPIConfig ==
    [port |-> 8888, host |-> "127.0.0.1", response_delay_min |-> 100,
     response_delay_max |-> 2000, failure_rate |-> 100,
     rate_limit_requests |-> 100, rate_limit_window |-> 3600]

\* os.getenv(name, default)
GetEnv(environ, name, default) ==
    IF name \in DOMAIN environ THEN environ[name] ELSE default

\* MockAPIConfig.from_env(): int() and float() are applied to the text of a
\* variable that is set and leave the default of one that is not as it is
from_env(self, environ) ==
    [self EXCEPT
        !.port = IF "MOCK_API_PORT" \in DOMAIN environ
                 THEN ParseInt(environ["MOCK_API_PORT"]) ELSE self.port,
        !.host = GetEnv(environ, "MOCK_API_HOST", self.host),
        !.response_delay_min =
            IF "MOCK_API_DELAY_MIN" \in DOMAIN environ
            THEN ParseFloat(environ["MOCK_API_DELAY_MIN"])
            ELSE self.response_delay_min,
        !.response_delay_max =
            IF "MOCK_API_DELAY_MAX" \in DOMAIN environ
            THEN ParseFloat(environ["MOCK_API_DELAY_MAX"])
            ELSE self.response_delay_max,
        !.failure_rate =
            IF "MOCK_API_FAILURE_RATE" \in DOMAIN environ
            THEN ParseFloat(environ["MOCK_API_FAILURE_RATE"])
            ELSE self.failure_rate]

\* parser.parse_args(): each option holds the value given on the command
\* line, converted by its type, or the default of its add_argument
parse_args(argv) ==
    [host |-> IF "--host" \in DOMAIN argv THEN argv["--host"] ELSE "127.0.0.1",
     port |-> IF "--port" \in DOMAIN argv
              THEN ParseInt(argv["--port"]) ELSE 8888,
     failure_rate |-> IF "--failure-rate" \in DOMAIN argv
                      THEN ParseFloat(argv["--failure-rate"]) ELSE 100,
     delay_min |-> IF "--delay-min" \in DOMAIN argv
                   THEN ParseFloat(argv["--delay-min"]) ELSE 100,
     delay_max |-> IF "--delay-max" \in DOMAIN argv
                   THEN ParseFloat(argv["--delay-max"]) ELSE 2000,
     rate_limit |-> IF "--rate-limit" \in DOMAIN argv
                    THEN ParseInt(argv["--rate-limit"]) ELSE 100]

\* "config.host = args.host" to "config.rate_limit_requests = args.rate_limit"
AssignArgs(config, args) ==
    [config EXCEPT !.host = args.host,
                   !.port = args.port,
                   !.failure_rate = args.failure_rate,
                   !.response_delay_min = args.delay_min,
                   !.response_delay_max = args.delay_max,
                   !.rate_limit_requests = args.rate_limit]

\* the names and texts an environment may hold
EnvTexts ==
    [name \in {"MOCK_API_PORT", "MOCK_API_HOST", "MOCK_API_DELAY_MIN",
               "MOCK_API_DELAY_MAX", "MOCK_API_FAILURE_RATE"} |->
        CASE name = "MOCK_API_PORT" -> <<"9", "0", "0", "0">>
          [] name = "MOCK_API_HOST" -> "0.0.0.0"
          [] name = "MOCK_API_DELAY_MIN" -> <<"0">>
          [] name = "MOCK_API_DELAY_MAX" -> <<"1", ".", "5">>
          [] name = "MOCK_API_FAILURE_RATE" -> <<"0", ".", "5">>]

\* the options and texts a command line may hold
ArgTexts ==
    [flag \in {"--port", "--host", "--delay-min", "--delay-max",
               "--failure-rate", "--rate-limit"} |->
        CASE flag = "--port" -> <<"8", "0", "8", "0">>
          [] flag = "--host" -> "localhost"
          [] flag = "--delay-min" -> <<"0", ".", "2", "5">>
          [] flag = "--delay-max" -> <<"3">>
          [] flag = "--failure-rate" -> <<"1", ".", "0">>
          [] flag = "--rate-limit" -> <<"2">>]

\* os.environ and sys.argv of a run: any of the names set, any of the
\* options given
Environs == {[n \in set |-> EnvTexts[n]] : set \in SUBSET DOMAIN EnvTexts}
Argvs == {[f \in given |-> ArgTexts[f]] : given \in SUBSET DOMAIN ArgTexts}

\* main before the process has read its environment: the server object is
\* built from a config made elsewhere
NoMain == [pc |-> "none", environ |-> <<>>, argv |-> <<>>, config |-> <<>>]

----------------------------------------------------------------------------
(* The serving loop and the handler.  HTTPServer.serve_forever() accepts a *)
(* connection, runs the handler on it to its end in the same thread, and   *)
(* only then accepts the next.  handle_request is followed in steps: the   *)
(* sleep, the rate-limit check, the failure draw and the routing each read *)
(* the clock on their own, and the clock may move between them.            *)

\* call before any direct call: loaded is the store as load_test_data built
\* it, earlier the overrides that the calls before the last one applied
NoCall(store) ==
    [made |-> FALSE, provider |-> "", scenario |-> "", kwargs |-> <<>>,
     exc |-> "", doc |-> Null, loaded |-> store, earlier |-> {}]

\* the history as the clock reaches t: a timestamp leaves it once it is a
\* whole window old
StillRecent(rec, t) ==
    [c \in Clients |-> SelectSeq(rec[c], LAMBDA x : t - x < WindowTicks)]

\* the threads that call the RateLimiter's methods directly
Threads == {"t1", "t2"}

\* a thread outside the RateLimiter's methods
Outside ==
    [pc |-> "outside", client_ip |-> "none", now |-> 0, window_start |-> 0,
     kept |-> <<>>, current_count |-> 0, returned |-> "none"]

Init ==
    /\ main = NoMain
    /\ lock = "free"
    /\ thread = [th \in Threads |-> Outside]
    /\ now = 0
    /\ requests = [c \in Clients |-> <<>>]
    /\ responses \in InitStores
    /\ failure_rate \in FailureRates
    /\ pending = 0
    /\ pc = "idle"
    /\ client_ip = "none"
    /\ adm = NoAdm
    /\ resp = NoResp
    /\ recent = [c \in Clients |-> <<>>]
    /\ rejected = [c \in Clients |-> FALSE]
    /\ call = NoCall(responses)

\* the clock moves
Tick(horizon) ==
    /\ now < horizon
    /\ now' = now + 1
    /\ recent' = StillRecent(recent, now')
    /\ UNCHANGED <<requests, responses, failure_rate, pending, pc, client_ip,
                   adm, resp, rejected, call, main, lock, thread>>

\* a client connects; the connection waits in the listening socket's queue
Connect ==
    /\ pending < MaxPending
    /\ pending' = pending + 1
    /\ UNCHANGED <<now, requests, responses, failure_rate, pc, client_ip,
                   adm, resp, recent, rejected, call,
                   main, lock, thread>>

\* serve_forever takes the next connection and starts the handler on it
Accept(clients) ==
    /\ pc = "idle"
    /\ pending > 0
    /\ pending' = pending - 1
    /\ \E c \in clients : client_ip' = c
    /\ pc' = "delay"
    /\ UNCHANGED <<now, requests, responses, failure_rate, adm, resp, recent, rejected, call,
                   main, lock, thread>>

\* handle_request: time.sleep(random.uniform(delay_min, delay_max))
Sleep(horizon) ==
    /\ pc = "delay"
    /\ \E delay \in response_delay_min..response_delay_max :
          /\ now + delay <= horizon
          /\ now' = now + delay
    /\ recent' = StillRecent(recent, now')
    /\ pc' = "admit"
    /\ UNCHANGED <<requests, responses, failure_rate, pending, client_ip,
                   adm, resp, rejected, call, main, lock, thread>>

\* handle_request: "if self.rate_limiter.is_rate_limited(client_ip)"
CheckRateLimit ==
    /\ pc = "admit"
    /\ LET r == is_rate_limited(requests, client_ip, now)
       IN /\ requests' = r.requests
          /\ adm' = [at |-> now, before |-> requests[client_ip],
                     limited |-> r.limited,
                     earlier |-> Len(recent[client_ip]),
                     turned_away |-> rejected[client_ip]]
          /\ rejected' = [rejected EXCEPT ![client_ip] = r.limited]
          /\ recent' = IF r.limited THEN recent
                       ELSE [recent EXCEPT ![client_ip] = Append(@, now)]
          /\ pc' = IF r.limited THEN "limited" ELSE "failure"
    /\ UNCHANGED <<now, responses, failure_rate, pending, client_ip, resp, call,
                   main, lock, thread>>

\* send_rate_limit_response(), called outside the try block
SendRateLimitResponse ==
    /\ pc = "limited"
    /\ \E rid \in RequestIdNums, io \in Writes :
          LET got == get_response(responses, "hetzner", "rate-limit-exceeded",
                                  <<>>, now, rid)
              base == Ended("limited", NoLine, io, now)
          IN /\ responses' = got.store
             /\ resp' =
                  IF got.exc # ""
                  THEN [base EXCEPT !.raised = got.exc, !.escaped = TRUE]
                  ELSE IF io.w[1]
                  THEN Wrote(base, send_json_response(429, got.doc, requests,
                                                      client_ip, now))
                  ELSE [base EXCEPT !.raised = BrokenPipe, !.escaped = TRUE]
    /\ pc' = "done"
    /\ UNCHANGED <<now, requests, failure_rate, pending, client_ip, adm, recent, rejected, call,
                   main, lock, thread>>

\* "if random.random() < self.config.failure_rate" holds:
\* send_random_failure_response(), called outside the try block
SendRandomFailureResponse ==
    /\ pc = "failure"
    /\ \E draw \in RandomDraws : FailureDrawn(draw, failure_rate)
    /\ \E f \in Failures, rid \in RequestIdNums, io \in Writes :
          LET base == Ended("failure", NoLine, io, now)
              body == generate_error_response(f[1], f[2], f[3], now, rid)
          IN resp' =
               IF io.w[1]
               THEN Wrote(base, send_json_response(f[1], body, requests,
                                                   client_ip, now))
               ELSE [base EXCEPT !.raised = BrokenPipe, !.escaped = TRUE]
    /\ pc' = "done"
    /\ UNCHANGED <<now, requests, responses, failure_rate, pending, client_ip,
                   adm, recent, rejected, call, main, lock, thread>>

\* "if random.random() < self.config.failure_rate" does not hold
NoFailure ==
    /\ pc = "failure"
    /\ \E draw \in RandomDraws : ~FailureDrawn(draw, failure_rate)
    /\ pc' = "route"
    /\ UNCHANGED <<now, requests, responses, failure_rate, pending, client_ip,
                   adm, resp, recent, rejected, call,
                   main, lock, thread>>

\* the except branch of handle_request, for the exception with message e
Except(r, e, io) ==
    LET c == [r EXCEPT !.raised = e, !.caught = TRUE]
    IN IF io.w[2]
       THEN Wrote(c, send_json_response(500, InternalError(e), requests,
                                        client_ip, now))
       ELSE [c EXCEPT !.escaped = TRUE]

\* handle_request from "Parse request" on: the try block and its except
HandleRoute(lines) ==
    /\ pc = "route"
    /\ \E line \in lines, rid \in RequestIdNums, io \in Writes :
          LET path_parts == Split(Strip(line.path))
              base == Ended("route", line, io, now)
          IN IF Len(path_parts) >= 2
             THEN LET provider == path_parts[1]
                      action == path_parts[2]
                      r == route_request(responses, provider, action,
                                         line.method, line.query, now, rid)
                      tried == [base EXCEPT !.provider = provider,
                                            !.scenario = r.scenario,
                                            !.discovery = r.discovery,
                                            !.routed = TRUE]
                  IN /\ responses' = r.store
                     /\ resp' =
                          IF r.exc # "" THEN Except(tried, r.exc, io)
                          ELSE IF io.w[1]
                          THEN Wrote(tried, send_json_response(200, r.doc,
                                        requests, client_ip, now))
                          ELSE Except(tried, BrokenPipe, io)
             ELSE /\ responses' = responses
                  /\ resp' =
                       IF io.w[1]
                       THEN Wrote(base, send_json_response(404, InvalidEndpoint,
                                     requests, client_ip, now))
                       ELSE Except(base, BrokenPipe, io)
    /\ pc' = "done"
    /\ UNCHANGED <<now, requests, failure_rate, pending, client_ip, adm, recent, rejected, call,
                   main, lock, thread>>

\* the handler returns and the serving loop closes the connection
Finish ==
    /\ pc = "done"
    /\ pc' = "idle"
    /\ client_ip' = "none"
    /\ adm' = NoAdm
    /\ resp' = NoResp
    /\ UNCHANGED <<now, requests, responses, failure_rate, pending, recent, rejected, call,
                   main, lock, thread>>

Next ==
    \/ Tick(MaxTime)
    \/ Connect
    \/ Accept(Clients)
    \/ Sleep(MaxTime)
    \/ CheckRateLimit
    \/ SendRateLimitResponse
    \/ SendRandomFailureResponse
    \/ NoFailure
    \/ HandleRoute(ProbeLines)
    \/ Finish

Spec == Init /\ [][Next]_vars

(* main() from the start of the process to the server object.              *)

InitMain ==
    /\ main \in {[pc |-> "start", environ |-> e, argv |-> a, config |-> <<>>] :
                    e \in Environs, a \in Argvs}
    /\ lock = "free"
    /\ thread = [th \in Threads |-> Outside]
    /\ now = 0
    /\ requests = [c \in Clients |-> <<>>]
    /\ responses = StoreObjects
    /\ failure_rate = MockAPIConfig.failure_rate
    /\ pending = 0
    /\ pc = "idle"
    /\ client_ip = "none"
    /\ adm = NoAdm
    /\ resp = NoResp
    /\ recent = [c \in Clients |-> <<>>]
    /\ rejected = [c \in Clients |-> FALSE]
    /\ call = NoCall(responses)

\* "config = MockAPIConfig().from_env()"
CreateConfig ==
    /\ main.pc = "start"
    /\ main' = [main EXCEPT !.pc = "env",
                            !.config = from_env(MockAPIConfig, main.environ)]
    /\ UNCHANGED <<now, requests, responses, failure_rate, pending, pc,
                   client_ip, adm, resp, recent, rejected, call, lock, thread>>

\* "config.host = args.host" and the five assignments after it
OverrideFromArgs ==
    /\ main.pc = "env"
    /\ main' = [main EXCEPT !.pc = "args",
                            !.config = AssignArgs(main.config,
                                                  parse_args(main.argv))]
    /\ UNCHANGED <<now, requests, responses, failure_rate, pending, pc,
                   client_ip, adm, resp, recent, rejected, call, lock, thread>>

\* "server = MockAPIServer(config)": the handlers read this config
CreateServer ==
    /\ main.pc = "args"
    /\ main' = [main EXCEPT !.pc = "server"]
    /\ failure_rate' = main.config.failure_rate
    /\ UNCHANGED <<now, requests, responses, pending, pc, client_ip, adm,
                   resp, recent, rejected, call, lock, thread>>

NextMain ==
    \/ CreateConfig
    \/ OverrideFromArgs
    \/ CreateServer

SpecMain == InitMain /\ [][NextMain]_vars

(* The RateLimiter called from several threads at once.  A method is       *)
(* followed statement by statement; "with self.lock" lets a thread in only *)
(* while no other thread holds the lock.                                   *)

\* a RateLimiter of its own, with no server in front of it
InitLimiter ==
    /\ main = NoMain
    /\ lock = "free"
    /\ thread = [th \in Threads |-> Outside]
    /\ now = 0
    /\ requests = [c \in Clients |-> <<>>]
    /\ responses = StoreObjects
    /\ failure_rate = 0
    /\ pending = 0
    /\ pc = "idle"
    /\ client_ip = "none"
    /\ adm = NoAdm
    /\ resp = NoResp
    /\ recent = [c \in Clients |-> <<>>]
    /\ rejected = [c \in Clients |-> FALSE]
    /\ call = NoCall(responses)

\* the lock that lets every thread in
LockIgnored(holder) == TRUE

\* the lock is taken by nobody, so that "with self.lock" may enter
LockFree(holder) == holder = "free"

\* a thread calls is_rate_limited(client_ip) or get_rate_limit_info(client_ip)
CallLimiter ==
    /\ \E th \in Threads, c \in Clients,
          method \in {"is_rate_limited", "get_rate_limit_info"} :
          /\ thread[th].pc = "outside"
          /\ thread' = [thread EXCEPT ![th] =
                [Outside EXCEPT !.pc = IF method = "is_rate_limited"
                                       THEN "with" ELSE "info_with",
                                !.client_ip = c]]
    /\ UNCHANGED <<now, requests, responses, failure_rate, pending, pc,
                   client_ip, adm, resp, recent, rejected, call, main, lock>>

\* "with self.lock:" of either method
AcquireLock ==
    /\ \E th \in Threads :
          /\ thread[th].pc \in {"with", "info_with"}
          /\ LockFree(lock)
          /\ lock' = th
          /\ thread' = [thread EXCEPT ![th].pc =
                IF thread[th].pc = "with" THEN "clock" ELSE "info_count"]
    /\ UNCHANGED <<now, requests, responses, failure_rate, pending, pc,
                   client_ip, adm, resp, recent, rejected, call, main>>

\* "now = time.time()" and "window_start = now - rate_limit_window"
ReadClock ==
    /\ \E th \in Threads :
          /\ thread[th].pc = "clock"
          /\ thread' = [thread EXCEPT ![th].pc = "filter",
                                      ![th].now = now,
                                      ![th].window_start = now - WindowTicks]
    /\ UNCHANGED <<now, requests, responses, failure_rate, pending, pc,
                   client_ip, adm, resp, recent, rejected, call, main, lock>>

\* the list comprehension over self.requests[client_ip]
BuildKept ==
    /\ \E th \in Threads :
          /\ thread[th].pc = "filter"
          /\ thread' = [thread EXCEPT ![th].pc = "store",
                ![th].kept = CleanOld(requests[thread[th].client_ip],
                                      thread[th].window_start)]
    /\ UNCHANGED <<now, requests, responses, failure_rate, pending, pc,
                   client_ip, adm, resp, recent, rejected, call, main, lock>>

\* "self.requests[client_ip] = [...]"
StoreKept ==
    /\ \E th \in Threads :
          /\ thread[th].pc = "store"
          /\ requests' = [requests EXCEPT ![thread[th].client_ip] =
                                                thread[th].kept]
          /\ thread' = [thread EXCEPT ![th].pc = "check"]
    /\ UNCHANGED <<now, responses, failure_rate, pending, pc, client_ip, adm,
                   resp, recent, rejected, call, main, lock>>

\* "if len(self.requests[client_ip]) >= rate_limit_requests: return True"
CheckFull ==
    /\ \E th \in Threads :
          /\ thread[th].pc = "check"
          /\ thread' =
               IF Len(requests[thread[th].client_ip]) >= rate_limit_requests
               THEN [thread EXCEPT ![th].pc = "exit",
                                   ![th].returned = "limited"]
               ELSE [thread EXCEPT ![th].pc = "append"]
    /\ UNCHANGED <<now, requests, responses, failure_rate, pending, pc,
                   client_ip, adm, resp, recent, rejected, call, main, lock>>

\* "self.requests[client_ip].append(now)" and "return False"
AppendNow ==
    /\ \E th \in Threads :
          /\ thread[th].pc = "append"
          /\ requests' = [requests EXCEPT ![thread[th].client_ip] =
                                                Append(@, thread[th].now)]
          /\ recent' = StillRecent(
                [recent EXCEPT ![thread[th].client_ip] =
                                    Append(@, thread[th].now)], now)
          /\ thread' = [thread EXCEPT ![th].pc = "exit",
                                      ![th].returned = "admitted"]
    /\ UNCHANGED <<now, responses, failure_rate, pending, pc, client_ip, adm,
                   resp, rejected, call, main, lock>>

\* get_rate_limit_info: "current_count = len(self.requests.get(...))" and
\* the return of the dict made from it
ReadCount ==
    /\ \E th \in Threads :
          /\ thread[th].pc = "info_count"
          /\ thread' = [thread EXCEPT ![th].pc = "exit",
                ![th].current_count = Len(requests[thread[th].client_ip]),
                ![th].returned = "info"]
    /\ UNCHANGED <<now, requests, responses, failure_rate, pending, pc,
                   client_ip, adm, resp, recent, rejected, call, main, lock>>

\* the end of the with block: the lock is released as the method returns
ReleaseLock ==
    /\ \E th \in Threads :
          /\ thread[th].pc = "exit"
          /\ lock' = "free"
          /\ thread' = [thread EXCEPT ![th].pc = "outside"]
    /\ UNCHANGED <<now, requests, responses, failure_rate, pending, pc,
                   client_ip, adm, resp, recent, rejected, call, main>>

NextLimiter ==
    \/ Tick(LimiterMaxTime)
    \/ CallLimiter
    \/ AcquireLock
    \/ ReadClock
    \/ BuildKept
    \/ StoreKept
    \/ CheckFull
    \/ AppendNow
    \/ ReadCount
    \/ ReleaseLock

SpecLimiter == InitLimiter /\ [][NextLimiter]_vars

(* The same server under every request line of RequestLines, with one      *)
(* client and a short clock.                                               *)

NextRouting ==
    \/ Tick(RoutingMaxTime)
    \/ Connect
    \/ Accept(RoutingClients)
    \/ Sleep(RoutingMaxTime)
    \/ CheckRateLimit
    \/ SendRateLimitResponse
    \/ SendRandomFailureResponse
    \/ NoFailure
    \/ HandleRoute(RequestLines)
    \/ Finish

SpecRouting == Init /\ [][NextRouting]_vars

(* MockResponseGenerator on its own: get_response called directly, with    *)
(* and without overrides, as the clock moves.                              *)

\* the (provider, scenario) pairs asked for
CallTargets ==
    { <<"hetzner", "success-create-server">>,
      <<"hetzner", "rate-limit-exceeded">>,
      <<"aws", "success-list-servers">>,
      <<"aws", "success-create-server">>,
      <<"nope", "success-create-server">> }

\* the **kwargs of a call, in the caller's order
CallKwargs ==
    { <<>>,
      << <<"zone", Str("override-zone")>> >>,
      << <<"created", Str("override-time")>>,
         <<"request_id", Str("override-id")>> >> }

\* get_response(provider, scenario, **kwargs), called on the generator
GetResponseCall ==
    /\ \E target \in CallTargets, kwargs \in CallKwargs, rid \in RequestIdNums :
          LET provider == target[1]
              scenario == target[2]
              got == get_response(responses, provider, scenario, kwargs, now, rid)
          IN /\ responses' = got.store
             /\ call' = [made |-> TRUE, provider |-> provider,
                         scenario |-> scenario, kwargs |-> kwargs,
                         exc |-> got.exc, doc |-> got.doc,
                         loaded |-> call.loaded,
                         earlier |-> call.earlier
                                      \cup {call.kwargs[i] : i \in 1..Len(call.kwargs)}]
    /\ UNCHANGED <<now, requests, failure_rate, pending, pc, client_ip, adm,
                   resp, recent, rejected, main, lock, thread>>

NextGenerator ==
    \/ Tick(GeneratorMaxTime)
    \/ GetResponseCall

SpecGenerator == Init /\ [][NextGenerator]_vars

----------------------------------------------------------------------------
(* The claims.                                                             *)

\* the handler has decided on the request's admission
Decided == pc \in {"limited", "failure", "route", "done"}

\* the handler is through with a request whose client is still connected
Served == pc = "done" /\ resp.conn

\* the timestamps of times that are less than a window old at clock value t
WindowCount(times, t) ==
    Cardinality({i \in 1..Len(times) : t - times[i] < WindowTicks})

\* a document customized with no overrides, on a copy of its own
Customized(doc, t, rid) ==
    update_request_id(update_timestamps(doc, IsoFormat(t)), RequestId(rid))

(* C1: a request is admitted when fewer than rate_limit_requests of the    *)
(* client's earlier admitted requests are less than a window old, and      *)
(* otherwise it is rejected and answered with HTTP 429.                    *)
C1_AdmitWithinQuotaElse429 ==
    /\ Decided => (adm.limited <=> adm.earlier >= rate_limit_requests)
    /\ (Served /\ adm.limited) => (resp.sent /\ resp.status = 429)

(* C4: an admit counts no timestamp more than a window older than its      *)
(* clock, and a client whose window was full is admitted on a request made *)
(* after its oldest recorded timestamp plus the window, whatever was       *)
(* rejected in between.                                                    *)
C4_ExpiredNeverCounted ==
    Decided =>
        /\ \A i \in 1..Len(requests[client_ip]) :
              adm.at - requests[client_ip][i] <= WindowTicks
        /\ (/\ Len(adm.before) >= rate_limit_requests
            /\ adm.at > adm.before[1] + WindowTicks) => ~adm.limited

\* C4's case: a full window, a rejection, and the admit after the oldest
\* timestamp aged out
C4_Witness ==
    /\ pc = "done"
    /\ Len(adm.before) >= rate_limit_requests
    /\ adm.at > adm.before[1] + WindowTicks
    /\ adm.turned_away
    /\ ~adm.limited
    /\ resp.sent

(* C5: in every response X-RateLimit-Remaining is non-negative and is      *)
(* max(0, limit - the client's recorded timestamps less than a window old  *)
(* when the status is read), X-RateLimit-Limit is rate_limit_requests and  *)
(* X-RateLimit-Reset is the second of that moment plus the window.         *)
C5_RemainingIsWindowCount ==
    (pc = "done" /\ resp.sent) =>
        /\ resp.headers.remaining >= 0
        /\ resp.headers.remaining =
              Max(0, rate_limit_requests
                        - WindowCount(requests[client_ip], resp.at))
        /\ resp.headers.limit = rate_limit_requests
        /\ resp.headers.reset = (resp.at + WindowTicks) \div TicksPerSecond

(* C6: a rejected request is answered with HTTP 429 by the rate-limit      *)
(* step, never by a later one, and when the store holds                    *)
(* hetzner/rate-limit-exceeded the body is that fixture, customized.       *)
C6_RejectedAlways429 ==
    (Served /\ adm.limited) =>
        /\ resp.sent
        /\ resp.status = 429
        /\ resp.step = "limited"
        /\ ~resp.routed
        /\ ("hetzner" \in DOMAIN responses
              /\ "rate-limit-exceeded" \in DOMAIN responses["hetzner"])
            => \E rid \in RequestIdNums :
                  resp.body = Customized(
                      responses["hetzner"]["rate-limit-exceeded"], resp.at, rid)

\* the (status, error code) pairs of the canned failures
CannedFailures ==
    { <<500, "internal_server_error">>, <<503, "service_unavailable">>,
      <<502, "bad_gateway">>, <<504, "gateway_timeout">> }

\* the response is a synthesized error envelope of a canned failure
IsInjectedFailure(r) ==
    /\ r.sent
    /\ IsDict(r.body)
    /\ DOMAIN r.body.o = {"error", "meta"}
    /\ <<r.status, r.body.o["error"].o["code"].s>> \in CannedFailures
    /\ r.body.o["error"].o["status_code"] = Num(r.status)

(* C8: with failure_rate = 1.0 every admitted request is answered with a   *)
(* canned failure and routing is never reached; with failure_rate = 0.0 no *)
(* request is answered with an injected failure.                           *)
C8_FailureRateExtremes ==
    /\ failure_rate = 1000 =>
          /\ pc # "route"
          /\ (Served /\ ~adm.limited) =>
                (resp.step = "failure" /\ ~resp.routed /\ IsInjectedFailure(resp))
    /\ failure_rate = 0 => (pc = "done" => resp.step # "failure")

\* A request that passed the rate limit at failure_rate = 1.0 and was
\* answered with a canned failure.
C8_Witness ==
    /\ Served
    /\ failure_rate = 1000
    /\ ~adm.limited
    /\ resp.status = 503
    /\ IsInjectedFailure(resp)

(* C9: while one request is inside its artificial delay, a connection that *)
(* has arrived can be taken up by the server without waiting for the first *)
(* request to finish.                                                      *)
C9_SecondRequestProceeds ==
    (pc = "delay" /\ pending > 0) => ENABLED Accept(Clients)

(* C10: a failure raised while handling an admitted request in the failure *)
(* step or the routing step is caught by handle_request's except branch    *)
(* and answered with HTTP 500 and the failure's message; none escapes.     *)
C10_FailuresCaught ==
    (pc = "done" /\ ~adm.limited /\ resp.raised # "") =>
        /\ resp.caught
        /\ ~resp.escaped
        /\ resp.sent
        /\ resp.status = 500
        /\ resp.body = InternalError(resp.raised)

\* value occurs under key somewhere in the document
RECURSIVE Occurs(_, _, _)
Occurs(doc, key, value) ==
    IF IsDict(doc)
    THEN \/ (key \in DOMAIN doc.o /\ doc.o[key] = value)
         \/ \E k \in DOMAIN doc.o : Occurs(doc.o[k], key, value)
    ELSE IF IsList(doc)
    THEN \E i \in 1..Len(doc.a) : Occurs(doc.a[i], key, value)
    ELSE FALSE

(* C2: after any sequence of get_response calls, with or without           *)
(* overrides, the store equals the store loaded at startup, and no         *)
(* override of an earlier call shows in the result of a later one.         *)
C2_StoreNeverMutated ==
    /\ responses = call.loaded
    /\ \A ov \in call.earlier :
          (\A i \in 1..Len(call.kwargs) : call.kwargs[i][1] # ov[1])
              => ~Occurs(call.doc, ov[1], ov[2])

(* C3: a routed request that is no discovery request and whose provider or *)
(* scenario is not in the store is answered with HTTP 404 and the error    *)
(* envelope naming provider_not_found or scenario_not_found.               *)
C3_MissAnswered404 ==
    (/\ Served
     /\ resp.routed
     /\ ~resp.discovery
     /\ \/ resp.provider \notin DOMAIN responses
        \/ resp.scenario \notin DOMAIN responses[resp.provider]) =>
        /\ resp.sent
        /\ resp.status = 404
        /\ IsDict(resp.body)
        /\ "error" \in DOMAIN resp.body.o
        /\ IsDict(resp.body.o["error"])
        /\ resp.body.o["error"].o["code"] =
              Str(IF resp.provider \notin DOMAIN responses
                  THEN "provider_not_found" ELSE "scenario_not_found")

\* the path without its leading and trailing slashes
Trimmed(path) ==
    LET names == {i \in 1..Len(path) : path[i] # "/"}
    IN IF names = {} THEN <<>>
       ELSE SubSeq(path, CHOOSE i \in names : \A j \in names : i <= j,
                         CHOOSE i \in names : \A j \in names : i >= j)

\* the places of the slashes inside the trimmed path
SlashesOf(path) == {i \in 1..Len(Trimmed(path)) : Trimmed(path)[i] = "/"}

\* the number of segments of the path
SegmentCount(path) == Cardinality(SlashesOf(path)) + 1

\* the place of the k-th slash of the trimmed path; 0 before the first
\* segment, one past the end after the last
SlashAt(path, k) ==
    IF k = 0 THEN 0
    ELSE IF k > Cardinality(SlashesOf(path)) THEN Len(Trimmed(path)) + 1
    ELSE CHOOSE i \in SlashesOf(path) :
            Cardinality({j \in SlashesOf(path) : j < i}) = k - 1

RECURSIVE Glue(_, _, _)
Glue(q, i, j) == IF i > j THEN "" ELSE q[i] \o Glue(q, i + 1, j)

\* the k-th segment of the path
Segment(path, k) ==
    Glue(Trimmed(path), SlashAt(path, k - 1) + 1, SlashAt(path, k) - 1)

\* the table of C7
TableScenario(action) ==
    IF action = "list-servers" THEN "success-list-servers"
    ELSE IF action = "server-status" THEN "success-server-status"
    ELSE "success-create-server"

(* C7: for every method, a path of at least two segments whose second is   *)
(* not test-scenarios resolves to the first segment as provider and to the *)
(* first value of the scenario query parameter when there is one, else to  *)
(* the table's entry for the second segment; a path of fewer than two      *)
(* segments is answered with HTTP 404 and the Invalid API endpoint body.   *)
C7_RouteResolution ==
    (pc = "done" /\ resp.step = "route") =>
        /\ resp.method \in Methods
        /\ SegmentCount(resp.path) < 2 =>
              /\ ~resp.routed
              /\ resp.conn => (/\ resp.sent
                               /\ resp.status = 404
                               /\ resp.body = InvalidEndpoint)
        /\ (/\ SegmentCount(resp.path) >= 2
            /\ Segment(resp.path, 2) # "test-scenarios") =>
              /\ resp.routed
              /\ ~resp.discovery
              /\ resp.provider = Segment(resp.path, 1)
              /\ resp.scenario =
                    IF "scenario" \in DOMAIN resp.query
                    THEN resp.query["scenario"][1]
                    ELSE TableScenario(Segment(resp.path, 2))

\* C7's case: a PUT of /aws/list-servers with two scenario values resolves
\* to the first of them
C7_Witness ==
    /\ Served
    /\ resp.method = "PUT"
    /\ resp.path = <<"/", "aws", "/", "list-servers">>
    /\ "scenario" \in DOMAIN resp.query
    /\ Len(resp.query["scenario"]) = 2
    /\ resp.provider = "aws"
    /\ resp.scenario = "quota-exceeded"
    /\ resp.sent

(* C11: a request whose second path segment is test-scenarios, admitted    *)
(* and not hit by an injected failure, is answered with HTTP 200 and an    *)
(* available_scenarios list holding exactly the scenario names of the      *)
(* store for the provider named by the first segment, each once, and the   *)
(* empty list for a provider the store does not know; a scenario query     *)
(* parameter changes nothing of this.                                      *)
C11_DiscoveryListsLoaded ==
    (/\ Served
     /\ resp.step = "route"
     /\ SegmentCount(resp.path) >= 2
     /\ Segment(resp.path, 2) = "test-scenarios") =>
        LET provider == Segment(resp.path, 1)
            loaded == IF provider \in DOMAIN responses
                      THEN DOMAIN responses[provider] ELSE {}
            listed == resp.body.o["available_scenarios"]
        IN /\ resp.sent
           /\ resp.status = 200
           /\ resp.discovery
           /\ IsDict(resp.body)
           /\ "available_scenarios" \in DOMAIN resp.body.o
           /\ IsList(listed)
           /\ Len(listed.a) = Cardinality(loaded)
           /\ {listed.a[i] : i \in 1..Len(listed.a)} = {Str(s) : s \in loaded}

\* C11's case: discovery for a provider the store does not know, with a
\* scenario query parameter on the request
C11_Witness ==
    /\ Served
    /\ resp.path = <<"/", "nope", "/", "test-scenarios">>
    /\ "scenario" \in DOMAIN resp.query
    /\ resp.sent
    /\ resp.status = 200
    /\ resp.body.o["available_scenarios"] = Arr(<<>>)

(* C12: every response handle_request writes, whatever its status, carries *)
(* the three X-RateLimit headers, the three Access-Control headers with    *)
(* Access-Control-Allow-Origin: *, Content-Type: application/json and      *)
(* Content-Length.                                                         *)
C12_HeadersOnEveryResponse ==
    (pc = "done" /\ resp.sent) =>
        /\ resp.status \in {200, 404, 429, 500, 502, 503, 504}
        /\ {"X-RateLimit-Limit", "X-RateLimit-Remaining", "X-RateLimit-Reset",
            "Access-Control-Allow-Origin", "Access-Control-Allow-Methods",
            "Access-Control-Allow-Headers", "Content-Type", "Content-Length"}
              \subseteq resp.headers.names
        /\ resp.headers.allow_origin = "*"
        /\ resp.headers.content_type = "application/json"
        /\ resp.headers.allow_methods # ""
        /\ resp.headers.allow_headers # ""

\* C12's case: the response of the except branch, the one written last of
\* all, after a failure inside the try block
C12_Witness ==
    /\ pc = "done"
    /\ resp.sent
    /\ resp.caught
    /\ resp.status = 500
    /\ resp.headers.names = HeaderNames

\* where a setting's value comes from when the command line goes before
\* the environment and the environment before the default
Source(argv, flag, environ, name) ==
    IF flag \in DOMAIN argv THEN "cli"
    ELSE IF name \in DOMAIN environ THEN "env"
    ELSE "default"

(* C13: once main has built the config, each of host, port, failure rate,  *)
(* minimum and maximum delay holds the value of its command-line option    *)
(* when the option was given, else the value of its environment variable   *)
(* when that is set, else the built-in default.                            *)
C13_CliThenEnvThenDefault ==
    main.pc \in {"args", "server"} =>
        LET e == main.environ
            a == main.argv
            c == main.config
            host == Source(a, "--host", e, "MOCK_API_HOST")
            port == Source(a, "--port", e, "MOCK_API_PORT")
            rate == Source(a, "--failure-rate", e, "MOCK_API_FAILURE_RATE")
            dmin == Source(a, "--delay-min", e, "MOCK_API_DELAY_MIN")
            dmax == Source(a, "--delay-max", e, "MOCK_API_DELAY_MAX")
        IN /\ c.host = CASE host = "cli" -> "localhost"
                         [] host = "env" -> "0.0.0.0"
                         [] OTHER -> "127.0.0.1"
           /\ c.port = CASE port = "cli" -> 8080
                         [] port = "env" -> 9000
                         [] OTHER -> 8888
           /\ c.failure_rate = CASE rate = "cli" -> 1000
                                 [] rate = "env" -> 500
                                 [] OTHER -> 100
           /\ c.response_delay_min = CASE dmin = "cli" -> 250
                                       [] dmin = "env" -> 0
                                       [] OTHER -> 100
           /\ c.response_delay_max = CASE dmax = "cli" -> 3000
                                       [] dmax = "env" -> 1500
                                       [] OTHER -> 2000
           /\ main.pc = "server" => failure_rate = c.failure_rate

\* the number of times x occurs in the sequence
Times(seq, x) == Cardinality({i \in 1..Len(seq) : seq[i] = x})

\* the threads inside a method of the RateLimiter
Inside == {th \in Threads : thread[th].pc \notin {"outside", "with", "info_with"}}

(* C14: whatever the interleaving of the threads' is_rate_limited and      *)
(* get_rate_limit_info calls, at most one thread is inside a method, no    *)
(* client has more than rate_limit_requests recorded timestamps, admitted  *)
(* timestamps less than a window old never number more than                *)
(* rate_limit_requests, each of them is still recorded, and a status call  *)
(* never counts more than rate_limit_requests.                             *)
C14_AdmitAtomic ==
    /\ Cardinality(Inside) <= 1
    /\ \A c \in Clients :
          /\ Len(requests[c]) <= rate_limit_requests
          /\ Len(recent[c]) <= rate_limit_requests
          /\ \A i \in 1..Len(recent[c]) :
                Times(requests[c], recent[c][i]) >= Times(recent[c], recent[c][i])
    /\ \A th \in Threads : thread[th].current_count <= rate_limit_requests

\* C14's case: two threads called for the same client at the same clock
\* value with one slot free; one was admitted and the other turned away
C14_Witness ==
    /\ thread["t1"].returned = "admitted"
    /\ thread["t2"].returned = "limited"
    /\ thread["t2"].pc = "exit"
    /\ thread["t1"].client_ip = thread["t2"].client_ip
    /\ thread["t1"].now = thread["t2"].now
    /\ Len(requests[thread["t1"].client_ip]) = rate_limit_requests

\* the sequence without the entries at the places in gone
Without(seq, gone) ==
    LET RECURSIVE from(_)
        from(i) == IF i > Len(seq) THEN <<>>
                   ELSE IF i \in gone THEN from(i + 1)
                   ELSE <<seq[i]>> \o from(i + 1)
    IN from(1)

\* after is before with nothing but expired timestamps removed, at clock
\* value t: what was removed is at least a window old and what was kept is
\* at most a window old
PrunedTo(before, after, t) ==
    \E gone \in SUBSET (1..Len(before)) :
        /\ \A i \in gone : before[i] <= t - WindowTicks
        /\ \A i \in (1..Len(before)) \ gone : before[i] >= t - WindowTicks
        /\ after = Without(before, gone)

(* C15: an is_rate_limited call that rejects leaves the client's list as   *)
(* it was but for expired timestamps removed; one that admits leaves that  *)
(* pruned list with the call's clock value appended, once; and neither     *)
(* changes the list of any other client.                                   *)
C15_AdmitFrame ==
    [][(pc = "admit" /\ pc' # "admit") =>
          /\ \A c \in Clients \ {client_ip} : requests'[c] = requests[c]
          /\ pc' \in {"limited", "failure"}
          /\ pc' = "limited" =>
                PrunedTo(requests[client_ip], requests'[client_ip], now)
          /\ pc' = "failure" =>
                /\ Len(requests'[client_ip]) >= 1
                /\ requests'[client_ip][Len(requests'[client_ip])] = now
                /\ PrunedTo(requests[client_ip],
                            SubSeq(requests'[client_ip], 1,
                                   Len(requests'[client_ip]) - 1), now)]_vars

\* C15's case: a client has just been turned away while another client has
\* requests on record
C15_Witness ==
    /\ pc = "limited"
    /\ adm.limited
    /\ requests[client_ip] = adm.before
    /\ \E c \in Clients \ {client_ip} : requests[c] # <<>>

\* the timestamps of times that the call at clock value t keeps when it
\* drops only those strictly older than t minus the window
NotOlder(times, t) == SelectSeq(times, LAMBDA x : x >= t - WindowTicks)

(* C16: an is_rate_limited call at clock value t removes exactly the       *)
(* client's timestamps strictly older than t minus the window; a timestamp *)
(* exactly a window old stays on the list and counts toward the quota of   *)
(* that call.                                                              *)
C16_PruneStrictlyOlder ==
    Decided =>
        /\ adm.limited <=> Len(NotOlder(adm.before, adm.at)) >= rate_limit_requests
        /\ requests[client_ip] =
              IF adm.limited THEN NotOlder(adm.before, adm.at)
              ELSE Append(NotOlder(adm.before, adm.at), adm.at)

(* C17: an admitted request that no injected failure hits and that         *)
(* resolves to a document of the store, whatever its JSON shape, is        *)
(* answered with HTTP 200 and that document customized.                    *)
C17_EveryShapeServed ==
    (/\ Served
     /\ resp.routed
     /\ ~resp.discovery
     /\ resp.provider \in DOMAIN responses
     /\ resp.scenario \in DOMAIN responses[resp.provider]) =>
        /\ resp.sent
        /\ resp.status = 200
        /\ \E rid \in RequestIdNums :
              resp.body = Customized(responses[resp.provider][resp.scenario],
                                     resp.at, rid)

\* the keys the overrides name, and the value given for one of them
OverrideKeys(kwargs) == {kwargs[i][1] : i \in 1..Len(kwargs)}
OverrideOf(kwargs, key) ==
    kwargs[CHOOSE i \in 1..Len(kwargs) : kwargs[i][1] = key][2]

\* the document in which every field named by an override holds the
\* override's value, every other non-empty timestamp field the time, every
\* other request_id field the identifier, and every remaining field what
\* it held
RECURSIVE Rewritten(_, _, _, _)
Rewritten(doc, kwargs, time, id) ==
    IF IsDict(doc)
    THEN Obj([k \in DOMAIN doc.o |->
                IF k \in OverrideKeys(kwargs) THEN OverrideOf(kwargs, k)
                ELSE IF k \in TimestampKeys /\ Truthy(doc.o[k]) THEN Str(time)
                ELSE IF k = "request_id" THEN Str(id)
                ELSE Rewritten(doc.o[k], kwargs, time, id)])
    ELSE IF IsList(doc)
    THEN Arr([i \in 1..Len(doc.a) |-> Rewritten(doc.a[i], kwargs, time, id)])
    ELSE doc

\* every field named key, at any depth of the document, holds value
RECURSIVE Everywhere(_, _, _)
Everywhere(doc, key, value) ==
    IF IsDict(doc)
    THEN /\ key \in DOMAIN doc.o => doc.o[key] = value
         /\ \A k \in DOMAIN doc.o \ {key} : Everywhere(doc.o[k], key, value)
    ELSE IF IsList(doc)
    THEN \A i \in 1..Len(doc.a) : Everywhere(doc.a[i], key, value)
    ELSE TRUE

(* C18: the result of get_response for a stored document is that document  *)
(* with the overrides applied after the timestamp and request_id rewrites: *)
(* every field named by an override holds the override's value at every    *)
(* depth, also when its key is timestamp, created, started, finished or    *)
(* request_id, and a field whose key is neither rewritten nor overridden   *)
(* holds what the document passed in held.                                 *)
C18_OverridesAfterRewrites ==
    [][(/\ call' # call
        /\ call'.exc = ""
        /\ call'.provider \in DOMAIN responses
        /\ call'.scenario \in DOMAIN responses[call'.provider]) =>
          /\ \E rid \in RequestIdNums :
                call'.doc = Rewritten(responses[call'.provider][call'.scenario],
                                      call'.kwargs, IsoFormat(now),
                                      RequestId(rid))
          /\ \A i \in 1..Len(call'.kwargs) :
                Everywhere(call'.doc, call'.kwargs[i][1], call'.kwargs[i][2])]_vars

\* C18's case: created and request_id overridden on a document that holds
\* created at the top and request_id and timestamp one level down
C18_Witness ==
    /\ call.made
    /\ call.provider = "hetzner"
    /\ call.scenario = "success-create-server"
    /\ OverrideKeys(call.kwargs) = {"created", "request_id"}
    /\ IsDict(call.doc)
    /\ DOMAIN call.doc.o = {"name", "created", "meta"}
    /\ call.doc.o["created"] = Str("override-time")
    /\ call.doc.o["meta"].o["request_id"] = Str("override-id")
    /\ call.doc.o["meta"].o["timestamp"] = Str(IsoFormat(now))
    /\ call.doc.o["name"] = Str("web-1")

\* the handler's request has added k timestamps, each the clock value of
\* its is_rate_limited call, to what was left of its client's list
Recorded(k) ==
    LET list == requests[client_ip]
    IN /\ Len(list) >= k
       /\ \A i \in (Len(list) - k + 1)..Len(list) : list[i] = adm.at
       /\ PrunedTo(adm.before, SubSeq(list, 1, Len(list) - k), adm.at)

(* C19: a request answered with any status other than 429 has added        *)
(* exactly one timestamp to its client's list, and a request answered with *)
(* 429 has added none.                                                     *)
C19_QuotaMatchesResponses ==
    (pc = "done" /\ resp.sent) =>
        /\ resp.status # 429 => (Recorded(1) /\ ~Recorded(0) /\ ~Recorded(2))
        /\ resp.status = 429 => (Recorded(0) /\ ~Recorded(1))

\* C19's case: a path of one segment, answered with 404, has taken one
\* slot of its client's quota
C19_Witness ==
    /\ pc = "done"
    /\ resp.sent
    /\ resp.status = 404
    /\ ~resp.routed
    /\ adm.before # <<>>
    /\ requests[client_ip] = Append(adm.before, adm.at)

(* C20: every response with status 429 carries X-RateLimit-Remaining 0:    *)
(* the client's list holds at least rate_limit_requests timestamps from    *)
(* the rejecting is_rate_limited call to the get_rate_limit_info call that *)
(* fills the headers of the same request.                                  *)
C20_RejectedRemainingZero ==
    /\ (pc = "done" /\ resp.sent /\ resp.status = 429) =>
          /\ adm.limited
          /\ resp.headers.remaining = 0
    /\ (pc \in {"limited", "done"} /\ adm.limited) =>
          Len(requests[client_ip]) >= rate_limit_requests

\* C20's case: the clock moved between the rejection and the response, so
\* that fewer than rate_limit_requests timestamps are less than a window
\* old when the headers are filled
C20_Witness ==
    /\ pc = "done"
    /\ resp.sent
    /\ resp.status = 429
    /\ resp.at > adm.at
    /\ WindowCount(requests[client_ip], resp.at) < rate_limit_requests
    /\ resp.headers.remaining = 0

====
